---- MODULE Spec2Model ----
(***************************************************************************)
(* Client side of the streaming agent report: the event source opened by   *)
(* stockApi.getAgentReport (real EventSource or MockEventSource), the      *)
(* AgentReport component that routes every event into per-step state       *)
(* (handleMessage), its reset effect, and the ThinkingAndReport view mode. *)
(* The server (Orchestrator) is not part of the web sources; its event     *)
(* order, its merge sink and its ReasoningSplitter are taken from the      *)
(* design document.                                                        *)
(* The stock analysis page (StockAnalysis, in its version with loading and  *)
(* error maps and in its version with a saved symbol list) and the Form    *)
(* with its saved selection are modelled beside it, each with its own      *)
(* specification.                                                          *)
(***************************************************************************)
EXTENDS Integers, Sequences, FiniteSets, TLC

\* ------------------------------------------------------------------ bounds
MaxEvents == 3          \* events fed to the router by the arbitrary feed
MaxConn == 2            \* event sources opened by the component
MaxEmits == 3           \* events one analysis unit emits into the merge sink
MaxChunks == 3          \* chunks the raw output of one generative step arrives in
MaxDeltas == 1          \* thinking/streaming deltas and events of a future kind one
                        \* server session emits
MaxInFlight == 2        \* requests for one symbol in flight at a time

\* --------------------------------------------------------------- constants
Null == "<null>"        \* JavaScript null for string-valued state

STEP_ORDER == <<"fundamental_analyzer", "technical_analyzer", "coordinator">>

Panels == {STEP_ORDER[i] : i \in 1..Len(STEP_ORDER)}

\* NodeStatus enum
NodeStatus == [pending |-> "pending", fetching |-> "fetching", running |-> "running",
               analyzing |-> "analyzing", completed |-> "completed", error |-> "error"]

Symbols == {"AAPL", "NVDA"}

Contents == {"", "a", "b"}

VARIABLES
  progressNodes,      \* useState<Record<string, ProgressNode>>
  analysisResult,     \* useState<AnalysisResult | null>: <<>> is null
  stepContents,       \* useState<Record<string, StepContent>>
  error,              \* useState<string | null>
  currentSymbol,      \* useState<string | null>
  hasStarted,         \* useState(false)
  userSelectedMode,   \* ThinkingAndReport state, one instance per panel
  crashed,            \* a state updater threw: React unmounted the tree
  symbol,             \* route parameter
  prevSymbolRef,      \* useRef: symbol of the last effect run that opened a source
  mounted,            \* AgentReport is mounted
  es,                 \* event sources created so far, in creation order
  effectEs,           \* index of the source the live effect cleanup closes, 0 if none
  microtask,          \* the reset queued with queueMicrotask is pending
  sessionLog,         \* history: per source, first and last event passed to onMessage
                      \* and the number of complete / error events among them
  resetFor,           \* history: index of the source whose reset ran last, 0 if none
  lastConn,           \* history: index of the source lastEvent came from, 0 if none
  lastEvent,          \* history: last event applied by handleMessage
  expThinking,        \* history: per declared step, thinking deltas since start/reset
  expStreaming,       \* history: per declared step, streaming deltas since start/reset
  overrideAtReset,    \* history: the last reset / start found a view override in place
  streamingLast,      \* history: the step keys for which a streaming delta is the most
                      \* recent of start / reset, complete and their streaming deltas
  nFed,               \* number of events the arbitrary feed has applied
  nUnknown,           \* history: events of an unknown kind that arrived since the
                      \* last reset
  sink,               \* server: the merge sink with its producers and its output
  splitter,           \* server: the ReasoningSplitter of one generative step
  page,               \* StockAnalysis: reports, loadingSymbols, errorMap, the requests
                      \* in flight, the render the handlers belong to, history
  listPage,           \* StockAnalysis with a saved symbol list
  form                \* Form: the selection, the input and localStorage

routerVars == <<progressNodes, analysisResult, stepContents, error, currentSymbol,
                hasStarted, userSelectedMode, crashed>>

connVars == <<symbol, prevSymbolRef, mounted, es, effectEs, microtask, sessionLog, resetFor,
              lastConn>>

serverVars == <<sink, splitter>>

pageVars == <<page, listPage, form>>

histVars == <<lastEvent, expThinking, expStreaming, overrideAtReset, streamingLast>>

vars == <<routerVars, connVars, histVars, nFed, nUnknown, serverVars, pageVars>>

\* ------------------------------------------------------------------ events
StartEvent(sym) == [type |-> "start", symbol |-> sym]

ProgressEvent(step, status) ==
  [type |-> "progress", step |-> step, status |-> status, message |-> "m_" \o status]

ProgressTimed(step, status, t) ==
  [type |-> "progress", step |-> step, status |-> status, message |-> "m_" \o status,
   execution_time |-> t]

StreamingEvent(step, c) == [type |-> "streaming", step |-> step, content |-> c]

ThinkingEvent(step, c) == [type |-> "thinking", step |-> step, content |-> c]

ErrorEvent == [type |-> "error", message |-> "failed"]

CompleteEvent == [type |-> "complete", result |-> [analysis |-> "R"]]

NoEvent == [type |-> "none"]

\* the kinds of AgentReportEvent
KnownKinds == {"start", "progress", "thinking", "streaming", "error", "complete"}

\* an event of a kind the client does not know
UnknownEvent == [type |-> "heartbeat"]

\* 1 for an event of an unknown kind, else 0
UnknownCount(event) == IF event.type \in KnownKinds THEN 0 ELSE 1

\* --------------------------------------------------------- pure operators
StartsWith(s, p) == Len(s) >= Len(p) /\ SubSeq(s, 1, Len(p)) = p

getStepKey(step) ==
  IF StartsWith(step, "fundamental_analyzer") THEN "fundamental_analyzer"
  ELSE IF StartsWith(step, "technical_analyzer") THEN "technical_analyzer"
  ELSE IF StartsWith(step, "coordinator") THEN "coordinator"
  ELSE step

\* { ...obj, [k]: v }
Put(obj, k, v) == [x \in (DOMAIN obj) \cup {k} |-> IF x = k THEN v ELSE obj[x]]

\* a property read followed by string concatenation: undefined + 'a' is 'undefineda'
StrOf(obj, f) == IF f \in DOMAIN obj THEN obj[f] ELSE "undefined"

EmptyStepContent ==
  [streaming |-> "", thinking |-> "", isStreaming |-> FALSE, executionTime |-> 0]

InitialStepContents == [s \in Panels |-> EmptyStepContent]

\* variant: the node is replaced by the event instead of merged into it
MergeNodeOverwrite(prev, event) == Put(prev, event.step, event)

\* lodash merge({}, prev, { [event.step]: event }): defined source fields win
MergeNode(prev, event) ==
  LET old == IF event.step \in DOMAIN prev THEN prev[event.step] ELSE << >>
      new == [f \in (DOMAIN old) \cup (DOMAIN event) |->
                IF f \in DOMAIN event THEN event[f] ELSE old[f]]
  IN Put(prev, event.step, new)

\* prev[stepKey] is undefined: reading .streaming / .thinking of it throws
Throws(prev, event) ==
  /\ event.type \in {"streaming", "thinking"}
  /\ getStepKey(event.step) \notin DOMAIN prev

\* case 'progress': the execution time, when the event carries a truthy one
OnProgress(prev, event) ==
  IF "execution_time" \in DOMAIN event /\ event.execution_time # 0
  THEN LET stepKey == getStepKey(event.step)
           old == IF stepKey \in DOMAIN prev THEN prev[stepKey] ELSE << >>
       IN Put(prev, stepKey, Put(old, "executionTime", event.execution_time))
  ELSE prev

\* variant: the delta is appended but the streaming flag is not raised
OnStreamingNoFlag(prev, event) ==
  LET stepKey == getStepKey(event.step)
  IN Put(prev, stepKey,
         Put(prev[stepKey], "streaming", StrOf(prev[stepKey], "streaming") \o event.content))

\* variant: the step that streams takes the streaming flag from every other step
OnStreamingExclusive(prev, event) ==
  LET stepKey == getStepKey(event.step)
      others == [k \in DOMAIN prev |-> Put(prev[k], "isStreaming", FALSE)]
  IN Put(others, stepKey,
         Put(Put(prev[stepKey], "streaming", StrOf(prev[stepKey], "streaming") \o event.content),
             "isStreaming", TRUE))

\* case 'streaming'
OnStreaming(prev, event) ==
  LET stepKey == getStepKey(event.step)
  IN Put(prev, stepKey,
         Put(Put(prev[stepKey], "streaming", StrOf(prev[stepKey], "streaming") \o event.content),
             "isStreaming", TRUE))

\* variant: the delta replaces the buffer instead of extending it
OnThinkingReplace(prev, event) ==
  LET stepKey == getStepKey(event.step)
  IN Put(prev, stepKey, Put(prev[stepKey], "thinking", event.content))

\* variant: a thinking delta raises the streaming flag as a streaming delta does
OnThinkingSetsFlag(prev, event) ==
  LET stepKey == getStepKey(event.step)
  IN Put(prev, stepKey,
         Put(Put(prev[stepKey], "thinking", StrOf(prev[stepKey], "thinking") \o event.content),
             "isStreaming", TRUE))

\* case 'thinking'
OnThinking(prev, event) ==
  LET stepKey == getStepKey(event.step)
  IN Put(prev, stepKey,
         Put(prev[stepKey], "thinking", StrOf(prev[stepKey], "thinking") \o event.content))

\* variant: complete installs fresh step contents, as start does
OnCompleteContentsClear(prev) == [k \in DOMAIN prev |-> EmptyStepContent]

\* variant: complete leaves the streaming flags alone
OnCompleteContentsKeep(prev) == prev

\* case 'complete': stop every streaming flag
OnCompleteContents(prev) == [k \in DOMAIN prev |-> Put(prev[k], "isStreaming", FALSE)]

\* case 'complete': every running node becomes completed
OnCompleteNodes(prev) ==
  [k \in DOMAIN prev |->
     IF "status" \in DOMAIN prev[k] /\ prev[k].status = NodeStatus.running
     THEN Put(prev[k], "status", NodeStatus.completed)
     ELSE prev[k]]

StepContentsAfter(prev, event) ==
  CASE event.type = "start" -> InitialStepContents
    [] event.type = "progress" -> OnProgress(prev, event)
    [] event.type = "streaming" -> OnStreaming(prev, event)
    [] event.type = "thinking" -> OnThinking(prev, event)
    [] event.type = "complete" -> OnCompleteContents(prev)
    [] OTHER -> prev

ProgressNodesAfter(prev, event) ==
  CASE event.type \in {"progress", "streaming", "thinking"} -> MergeNode(prev, event)
    [] event.type = "complete" -> OnCompleteNodes(prev)
    [] OTHER -> prev

\* --------------------------------------------------------------- the view
Boolean(str) == str # ""

\* node?.status || NodeStatus.pending
StatusOf(pn, step) ==
  IF step \in DOMAIN pn /\ "status" \in DOMAIN pn[step] THEN pn[step].status
  ELSE NodeStatus.pending

\* the spinner of a step card
ShowsSpinner(pn, started, step) == started /\ StatusOf(pn, step) = NodeStatus.running

thinkingContent(sc, p) == sc[p].thinking

\* the reportContent prop of each panel
reportContent(sc, pn, ar, p) ==
  IF sc[p].streaming # "" THEN sc[p].streaming
  ELSE IF p = "coordinator"
       THEN (IF ar # << >> THEN ar[1].analysis ELSE "")
       ELSE (IF ar # << >> /\ StatusOf(pn, p) = "completed" THEN "done" ELSE "")

\* the condition under which AgentReport renders the panel at all
Rendered(sc, ar, p) ==
  \/ sc[p].thinking # ""
  \/ sc[p].streaming # ""
  \/ p = "coordinator" /\ ar # << >>

\* variant: while streaming, reasoning is kept in view when both channels have content
viewModeThinkingWhileStreaming(selected, hasThinking, hasReport, isStreaming) ==
  IF selected # "none"
  THEN IF selected = "thinking" /\ ~hasThinking
       THEN (IF hasReport THEN "report" ELSE "thinking")
       ELSE IF selected = "report" /\ ~hasReport
            THEN (IF hasThinking THEN "thinking" ELSE "report")
            ELSE selected
  ELSE IF hasThinking /\ ~hasReport THEN "thinking"
       ELSE IF ~hasThinking /\ hasReport THEN "report"
       ELSE IF hasThinking /\ hasReport /\ ~isStreaming THEN "report"
       ELSE "thinking"

\* variant: the user's choice is used without checking that its channel has content
viewModeTrustUser(selected, hasThinking, hasReport, isStreaming) ==
  IF selected # "none" THEN selected
  ELSE IF hasThinking /\ ~hasReport THEN "thinking"
       ELSE IF ~hasThinking /\ hasReport THEN "report"
       ELSE IF hasThinking /\ hasReport /\ ~isStreaming THEN "report"
       ELSE IF hasReport THEN "report" ELSE "thinking"

\* useMemo viewMode of ThinkingAndReport; "none" is userSelectedMode === null
viewMode(selected, hasThinking, hasReport, isStreaming) ==
  IF selected # "none"
  THEN IF selected = "thinking" /\ ~hasThinking
       THEN (IF hasReport THEN "report" ELSE "thinking")
       ELSE IF selected = "report" /\ ~hasReport
            THEN (IF hasThinking THEN "thinking" ELSE "report")
            ELSE selected
  ELSE IF hasThinking /\ ~hasReport THEN "thinking"
       ELSE IF ~hasThinking /\ hasReport THEN "report"
       ELSE IF hasThinking /\ hasReport /\ ~isStreaming THEN "report"
       ELSE IF hasReport THEN "report" ELSE "thinking"

hasThinking(p) == Boolean(thinkingContent(stepContents, p))

hasReport(p) == Boolean(reportContent(stepContents, progressNodes, analysisResult, p))

\* the view mode panel p shows in the current state
ViewOf(p) ==
  viewMode(userSelectedMode[p], hasThinking(p), hasReport(p), stepContents[p].isStreaming)

\* some panel holds a user-selected view mode
HasOverride == \E p \in Panels : userSelectedMode[p] # "none"

\* variant: the component state of a panel outlives the panel
RemountKeep(sel, sc, ar) == sel

\* a panel that is not rendered loses its component state
Remount(sel, sc, ar) == [p \in Panels |-> IF Rendered(sc, ar, p) THEN sel[p] ELSE "none"]

\* ------------------------------------------------------------- the router
\* history of the deltas of each declared step, kept beside the router
ExpAfter(exp, event, kind) ==
  IF event.type = "start" THEN [s \in Panels |-> ""]
  ELSE IF event.type = kind
       THEN [s \in Panels |-> IF StartsWith(event.step, s) THEN exp[s] \o event.content
                              ELSE exp[s]]
       ELSE exp

\* history of the events that bear on the streaming flags, kept beside the router
StreamingLastAfter(last, event) ==
  IF event.type \in {"start", "complete"} THEN {}
  ELSE IF event.type = "streaming" THEN last \cup {getStepKey(event.step)}
  ELSE last

\* handleMessage(event)
HandleMessage(event) ==
  IF Throws(stepContents, event)
  THEN /\ crashed' = TRUE
       /\ UNCHANGED <<progressNodes, analysisResult, stepContents, error, currentSymbol,
                      hasStarted, userSelectedMode, histVars>>
  ELSE /\ stepContents' = StepContentsAfter(stepContents, event)
       /\ progressNodes' = ProgressNodesAfter(progressNodes, event)
       /\ analysisResult' = IF event.type = "complete" THEN <<event.result>>
                            ELSE analysisResult
       /\ error' = IF event.type = "error" THEN event.message ELSE error
       /\ currentSymbol' = IF event.type = "start" THEN event.symbol ELSE currentSymbol
       /\ hasStarted' = IF event.type = "start" THEN TRUE ELSE hasStarted
       /\ userSelectedMode' = Remount(userSelectedMode, stepContents', analysisResult')
       /\ lastEvent' = event
       /\ expThinking' = ExpAfter(expThinking, event, "thinking")
       /\ expStreaming' = ExpAfter(expStreaming, event, "streaming")
       /\ overrideAtReset' = IF event.type = "start" THEN HasOverride ELSE overrideAtReset
       /\ streamingLast' = StreamingLastAfter(streamingLast, event)
       /\ UNCHANGED crashed

\* the state the reset of the effect installs
ResetState ==
  /\ progressNodes' = << >>
  /\ analysisResult' = << >>
  /\ stepContents' = InitialStepContents
  /\ error' = Null
  /\ currentSymbol' = Null
  /\ hasStarted' = FALSE
  /\ userSelectedMode' = Remount(userSelectedMode, stepContents', analysisResult')
  /\ lastEvent' = NoEvent
  /\ expThinking' = [s \in Panels |-> ""]
  /\ expStreaming' = [s \in Panels |-> ""]
  /\ overrideAtReset' = HasOverride
  /\ streamingLast' = {}
  /\ UNCHANGED crashed

\* onClick of the view buttons: each button exists only when its channel has content
HandleSetViewMode(p, mode) ==
  /\ ~crashed
  /\ Rendered(stepContents, analysisResult, p)
  /\ IF mode = "thinking" THEN hasThinking(p) ELSE hasReport(p)
  /\ userSelectedMode' = [userSelectedMode EXCEPT ![p] = mode]
  /\ UNCHANGED <<progressNodes, analysisResult, stepContents, error, currentSymbol,
                 hasStarted, crashed, connVars, histVars, nFed, nUnknown, serverVars, pageVars>>

\* Alert onClose: setError(null)
CloseAlert ==
  /\ ~crashed
  /\ error # Null /\ error # ""
  /\ error' = Null
  /\ UNCHANGED <<progressNodes, analysisResult, stepContents, currentSymbol, hasStarted,
                 userSelectedMode, crashed, connVars, histVars, nFed, nUnknown, serverVars, pageVars>>

\* ------------------------------------------------- the router, any events
EventSteps == {"fundamental_analyzer", "technical_analyzer_llm", "coordinator", "risk_agent"}

Events ==
  {StartEvent(s) : s \in {"AAPL"}}
  \cup {ProgressEvent(s, st) : s \in Panels, st \in {"running", "success", "error"}}
  \cup {ProgressTimed("coordinator", "success", 5), ProgressTimed("risk_agent", "success", 5)}
  \cup {StreamingEvent(s, c) : s \in EventSteps, c \in Contents}
  \cup {ThinkingEvent(s, c) : s \in EventSteps, c \in Contents}
  \cup {ErrorEvent, CompleteEvent, UnknownEvent}

InitRouterState ==
  /\ progressNodes = << >>
  /\ analysisResult = << >>
  /\ stepContents = InitialStepContents
  /\ error = Null
  /\ currentSymbol = Null
  /\ hasStarted = FALSE
  /\ userSelectedMode = [p \in Panels |-> "none"]
  /\ crashed = FALSE
  /\ lastEvent = NoEvent
  /\ expThinking = [s \in Panels |-> ""]
  /\ expStreaming = [s \in Panels |-> ""]
  /\ overrideAtReset = FALSE
  /\ streamingLast = {}
  /\ nFed = 0
  /\ nUnknown = 0

\* ------------------------------------------------------ the event source
\* MOCK_DELAYS
MOCK_DELAYS == [start |-> 500, fundamental |-> 2000, technical |-> 2000,
                streaming |-> 3000, complete |-> 1000]

\* the delay expressions of the events array of startMockFlow, in order
MockDelays ==
  << MOCK_DELAYS.start,
     MOCK_DELAYS.start + 500,
     MOCK_DELAYS.start + MOCK_DELAYS.fundamental,
     MOCK_DELAYS.start + MOCK_DELAYS.fundamental + 500,
     MOCK_DELAYS.start + MOCK_DELAYS.fundamental + MOCK_DELAYS.technical,
     MOCK_DELAYS.start + MOCK_DELAYS.fundamental + MOCK_DELAYS.technical + 500,
     MOCK_DELAYS.start + MOCK_DELAYS.fundamental + MOCK_DELAYS.technical + 1000,
     MOCK_DELAYS.start + MOCK_DELAYS.fundamental + MOCK_DELAYS.technical
       + MOCK_DELAYS.streaming + MOCK_DELAYS.complete >>

\* variant: the delay of coordinator running leaves out the technical step
MockDelayCoordinatorEarly(i) ==
  IF i = 6 THEN MOCK_DELAYS.start + MOCK_DELAYS.fundamental + 1000 ELSE MockDelays[i]

\* variant: the start event is scheduled with the delay of the fundamental step
MockDelayStartLate(i) == IF i = 1 THEN MOCK_DELAYS.fundamental ELSE MockDelays[i]

\* the delay of the i-th event of startMockFlow
MockDelay(i) == MockDelays[i]

\* the data of the events array of startMockFlow, in the order the timers are created
MockEvents(sym) ==
  << StartEvent(sym),
     ProgressEvent("fundamental_analyzer", "running"),
     ProgressEvent("fundamental_analyzer", "success"),
     ProgressEvent("technical_analyzer", "running"),
     ProgressEvent("technical_analyzer", "success"),
     ProgressEvent("coordinator", "running"),
     StreamingEvent("coordinator", "a"),
     CompleteEvent >>

\* the delay of the connect timer of the MockEventSource constructor
ConnectDelay == 100

\* timer 0 is the connect timer, timer i the one of the i-th event; the time it is due
DueAt(t) == IF t = 0 THEN ConnectDelay ELSE ConnectDelay + MockDelay(t)

\* the pending timer the event loop runs next: earliest due, then earliest created
NextTimer(src) ==
  CHOOSE t \in src.timers :
    \A u \in src.timers :
      \/ DueAt(t) < DueAt(u)
      \/ DueAt(t) = DueAt(u) /\ t <= u

\* the event names getAgentReport / getMockEventSource add a listener for
ListenedTypes(mock) ==
  IF mock THEN {"start", "progress", "streaming", "error", "complete"}
  ELSE {"start", "progress", "thinking", "streaming", "error", "complete"}

\* variant: an event without a listener of its own is given to the error listener
ListenerForCatchAll(mock, type) ==
  IF type \in ListenedTypes(mock)
  THEN (IF type \in {"error", "complete"} THEN type ELSE "message")
  ELSE "error"

\* the listener that runs for an event name: "message" only parses and calls
\* onMessage, "error" and "complete" also close the source, "none" is no listener
ListenerFor(mock, type) ==
  IF type \in ListenedTypes(mock)
  THEN (IF type \in {"error", "complete"} THEN type ELSE "message")
  ELSE "none"

\* the server session of a real connection (design document, Orchestrator)
Units == {"fundamental_analyzer", "technical_analyzer"}

InitSrv == [phase |-> "start", unit |-> [u \in Units |-> "idle"], syn |-> "idle",
            deltas |-> 0]

\* new EventSource(url) / new MockEventSource(url), listeners added
NewSource(sym, mock) ==
  [symbol |-> sym, mock |-> mock, closed |-> FALSE, readyState |-> 0,
   timers |-> IF mock THEN {0} ELSE {}, listeners |-> TRUE, failed |-> FALSE,
   onErrors |-> 0, ended |-> FALSE, srv |-> InitSrv]

\* close()
\* the server session once the client has closed the channel: cancelled
CancelledSrv == [InitSrv EXCEPT !.phase = "ended"]

\* variant: close() only records the ready state
CloseLeavesOpen(src) == [src EXCEPT !.readyState = 2]

Close(src) ==
  [src EXCEPT !.closed = TRUE, !.readyState = 2, !.timers = {}, !.listeners = FALSE,
              !.srv = CancelledSrv]

\* the error / complete listeners and es.onerror end the source: `calls` calls of
\* options.onError, then es.close()
Ended(src, calls) == [Close(src) EXCEPT !.ended = TRUE, !.onErrors = @ + calls]

\* es.onerror reports only when the source is not closed yet
OnerrorReports(src) == src.readyState # 2

\* variant: the cleanup does not close the source
EffectCleanupNoClose(sources, i) == sources

\* the cleanup the effect returns: eventSource?.close()
EffectCleanup(sources, i) ==
  IF i = 0 THEN sources ELSE [sources EXCEPT ![i] = Close(sources[i])]

\* variant: the session goes on to the synthesis whatever the units' outcomes
AllUnitsFailedIgnored(srv) == FALSE

\* every analysis unit ended with an error outcome: the Orchestrator short-circuits
AllUnitsFailed(srv) == \A u \in Units : srv.unit[u] = "error"

\* the events the Orchestrator may emit next, each with the session state after it
OrchSteps(srv) ==
  LET deltaSteps(steps) ==
        {[ev |-> ev, srv |-> [srv EXCEPT !.deltas = @ + 1]] :
           ev \in {StreamingEvent(s, c) : s \in steps, c \in {"a"}}
                  \cup {ThinkingEvent(s, c) : s \in steps, c \in {"a"}}}
      running == {u \in Units : srv.unit[u] = "running"}
      terminal == {u \in Units : srv.unit[u] \in {"success", "error"}}
  IN CASE srv.phase = "start" ->
            {[ev |-> StartEvent("sym"), srv |-> [srv EXCEPT !.phase = "analysis"]]}
       [] srv.phase = "analysis" ->
            {[ev |-> ProgressEvent(u, "running"),
              srv |-> [srv EXCEPT !.unit[u] = "running"]] :
                u \in {v \in Units : srv.unit[v] = "idle"}}
            \cup {[ev |-> ProgressEvent(u, st), srv |-> [srv EXCEPT !.unit[u] = st]] :
                    u \in running, st \in {"success", "error"}}
            \cup (IF srv.deltas < MaxDeltas THEN deltaSteps(running) ELSE {})
            \cup (IF terminal = Units
                  THEN IF AllUnitsFailed(srv)
                       THEN {[ev |-> ErrorEvent, srv |-> [srv EXCEPT !.phase = "ended"]]}
                       ELSE {[ev |-> ProgressEvent("coordinator", "running"),
                              srv |-> [srv EXCEPT !.phase = "synthesis",
                                                  !.syn = "running"]]}
                  ELSE {})
       [] srv.phase = "synthesis" ->
            (IF srv.syn = "running" /\ srv.deltas < MaxDeltas
             THEN deltaSteps({"coordinator"}) ELSE {})
            \cup (IF srv.syn = "running"
                  THEN {[ev |-> ProgressEvent("coordinator", "success"),
                         srv |-> [srv EXCEPT !.syn = "success"]]}
                  ELSE {})
            \cup {[ev |-> CompleteEvent, srv |-> [srv EXCEPT !.phase = "ended"]]}
            \cup (IF srv.syn = "running"
                  THEN {[ev |-> ErrorEvent, srv |-> [srv EXCEPT !.phase = "ended"]]}
                  ELSE {})
       [] OTHER -> {}

\* a later version of the server sends an event of a kind this client does not know
FutureKindSteps(srv) ==
  IF srv.phase \in {"analysis", "synthesis"} /\ srv.deltas < MaxDeltas
  THEN {[ev |-> UnknownEvent, srv |-> [srv EXCEPT !.deltas = @ + 1]]}
  ELSE {}

EmptyLog == [first |-> "none", last |-> "none", terminals |-> 0]

\* the summary of a source's delivered events after one more event
Logged(log, event) ==
  [first |-> IF log.first = "none" THEN event.type ELSE log.first,
   last |-> event.type,
   terminals |-> IF event.type \in {"error", "complete"} THEN log.terminals + 1
                 ELSE log.terminals]

\* a listener of getAgentReport runs for a dispatched event: JSON.parse, onMessage,
\* and for error / complete the onError call and es.close()
Listener(c, event) ==
  /\ HandleMessage(event)
  /\ sessionLog' = [sessionLog EXCEPT ![c] = Logged(@, event)]
  /\ lastConn' = IF crashed' THEN lastConn ELSE c
  /\ UNCHANGED <<symbol, prevSymbolRef, microtask, resetFor, nFed, serverVars, pageVars>>

\* the sources after the listener of `event` ran on source c with content `src`
AfterListener(c, src, event) ==
  IF ListenerFor(src.mock, event.type) = "error" THEN [es EXCEPT ![c] = Ended(src, 1)]
  ELSE IF ListenerFor(src.mock, event.type) = "complete" THEN [es EXCEPT ![c] = Ended(src, 0)]
  ELSE IF Throws(stepContents, event) THEN [es EXCEPT ![c] = Close(src)]
  ELSE [es EXCEPT ![c] = src]

Idle == ~crashed /\ mounted /\ ~microtask

\* a timer of MockEventSource fires
FireTimer(c) ==
  /\ Idle
  /\ es[c].mock /\ es[c].timers # {}
  /\ LET t == NextTimer(es[c])
         src == [es[c] EXCEPT !.timers = @ \ {t}]
     IN IF src.closed
        THEN /\ es' = [es EXCEPT ![c] = src]
             /\ UNCHANGED <<routerVars, histVars, symbol, prevSymbolRef, mounted, effectEs,
                            microtask, sessionLog, resetFor, lastConn, nFed, nUnknown, serverVars, pageVars>>
        ELSE IF t = 0
        THEN /\ es' = [es EXCEPT ![c] = [src EXCEPT !.readyState = 1,
                                                    !.timers = 1..Len(MockEvents(src.symbol))]]
             /\ UNCHANGED <<routerVars, histVars, symbol, prevSymbolRef, mounted, effectEs,
                            microtask, sessionLog, resetFor, lastConn, nFed, nUnknown, serverVars, pageVars>>
        ELSE LET event == MockEvents(src.symbol)[t]
             IN IF src.listeners /\ ListenerFor(TRUE, event.type) # "none"
                THEN /\ Listener(c, event)
                     /\ es' = AfterListener(c, src, event)
                     /\ mounted' = ~crashed'
                     /\ effectEs' = IF crashed' THEN 0 ELSE effectEs
                     /\ nUnknown' = nUnknown + UnknownCount(event)
                ELSE /\ es' = [es EXCEPT ![c] = src]
                     /\ nUnknown' = nUnknown + UnknownCount(event)
                     /\ UNCHANGED <<routerVars, histVars, symbol, prevSymbolRef, mounted,
                                    effectEs, microtask, sessionLog, resetFor, lastConn, nFed, serverVars, pageVars>>

\* the server emits its next event and the EventSource dispatches it
ServerEmit(c) ==
  /\ Idle
  /\ ~es[c].mock /\ ~es[c].closed
  /\ \E step \in OrchSteps(es[c].srv) \cup FutureKindSteps(es[c].srv) :
       LET event == IF step.ev.type = "start" THEN StartEvent(es[c].symbol) ELSE step.ev
           src == [es[c] EXCEPT !.srv = step.srv, !.readyState = 1]
       IN /\ nUnknown' = nUnknown + UnknownCount(event)
          /\ IF ListenerFor(FALSE, event.type) # "none"
             THEN /\ Listener(c, event)
                  /\ es' = AfterListener(c, src, event)
                  /\ mounted' = ~crashed'
                  /\ effectEs' = IF crashed' THEN 0 ELSE effectEs
             ELSE /\ es' = [es EXCEPT ![c] = src]
                  /\ UNCHANGED <<routerVars, histVars, symbol, prevSymbolRef, mounted, effectEs,
                                 microtask, sessionLog, resetFor, lastConn, nFed, serverVars, pageVars>>

\* the message the error listener reports when the payload of its event cannot be
\* parsed ('分析过程发生错误')
ParseErrorMessage == "analysis failed"

\* the message es.onerror reports ('连接服务器失败')
ConnectErrorMessage == "connection failed"

\* the connection of a real EventSource fails, or its error event carries a payload
\* that cannot be parsed: the 'error' listener, added first, runs first, cannot
\* parse the data, reports through onError and closes; es.onerror then runs on the
\* closed source
TransportError(c) ==
  /\ Idle
  /\ ~es[c].mock /\ ~es[c].closed
  /\ LET listened == Ended(es[c], 1)
         again == IF OnerrorReports(listened) THEN 1 ELSE 0
     IN /\ error' = IF again = 1 THEN ConnectErrorMessage ELSE ParseErrorMessage
        /\ es' = [es EXCEPT ![c] = [Ended(listened, again) EXCEPT !.failed = TRUE]]
  /\ UNCHANGED <<progressNodes, analysisResult, stepContents, currentSymbol, hasStarted,
                 userSelectedMode, crashed, histVars, symbol, prevSymbolRef, mounted,
                 effectEs, microtask, sessionLog, resetFor, lastConn, nFed, nUnknown, serverVars, pageVars>>

\* the complete event of a real EventSource carries a payload that cannot be
\* parsed: the 'complete' listener logs the failure and closes
MalformedComplete(c) ==
  /\ Idle
  /\ ~es[c].mock /\ ~es[c].closed
  /\ \E step \in OrchSteps(es[c].srv) : step.ev.type = "complete"
  /\ es' = [es EXCEPT ![c] = [Ended(es[c], 0) EXCEPT !.failed = TRUE]]
  /\ UNCHANGED <<routerVars, histVars, symbol, prevSymbolRef, mounted, effectEs, microtask,
                 sessionLog, resetFor, lastConn, nFed, nUnknown, serverVars, pageVars>>

\* the route changes to another symbol: cleanup of the old effect, then the effect
Navigate(sym) ==
  /\ Idle
  /\ sym # symbol
  /\ Len(es) < MaxConn
  /\ symbol' = sym
  /\ IF sym = prevSymbolRef
     THEN /\ es' = EffectCleanup(es, effectEs)
          /\ effectEs' = 0
          /\ UNCHANGED <<prevSymbolRef, microtask>>
     ELSE /\ prevSymbolRef' = sym
          /\ microtask' = TRUE
          /\ es' = Append(EffectCleanup(es, effectEs), NewSource(sym, es[1].mock))
          /\ effectEs' = Len(es) + 1
  /\ sessionLog' = IF sym = prevSymbolRef THEN sessionLog ELSE Append(sessionLog, EmptyLog)
  /\ UNCHANGED <<routerVars, histVars, mounted, resetFor, lastConn, nFed, nUnknown, serverVars, pageVars>>

\* the queued microtask runs: the six setState calls of the reset
RunMicrotask ==
  /\ ~crashed /\ mounted /\ microtask
  /\ microtask' = FALSE
  /\ ResetState
  /\ resetFor' = effectEs
  /\ lastConn' = 0
  /\ nUnknown' = 0
  /\ UNCHANGED <<symbol, prevSymbolRef, mounted, es, effectEs, sessionLog, nFed, serverVars, pageVars>>

\* the component unmounts: the cleanup of the live effect
Unmount ==
  /\ Idle
  /\ mounted' = FALSE
  /\ es' = EffectCleanup(es, effectEs)
  /\ effectEs' = 0
  /\ UNCHANGED <<routerVars, histVars, symbol, prevSymbolRef, microtask, sessionLog, resetFor, lastConn, nFed, nUnknown, serverVars, pageVars>>

\* ------------------------------------------------ the stock analysis page
\* StockAnalysis keeps the reports, the symbols being loaded and the errors; its
\* handlers read the state of the render they belong to. An update made in a click
\* or key handler is rendered before the next event; an update made when a request
\* settles is rendered later, so an event may find the previous render.

\* Map.delete
Without(obj, k) == [x \in (DOMAIN obj) \ {k} |-> obj[x]]

\* '未获取到股票数据，请检查股票代码是否正确'
EmptyDataMessage == "no data"

\* err.message || '分析失败，请稍后重试'
RejectedMessage == "failed"

\* how a request settles: a report, an empty list, a rejection
Outcomes == {"report", "empty", "rejected"}

\* the state a render shows and its handlers close over
Rendering(p) ==
  [reports |-> p.reports, loadingSymbols |-> p.loadingSymbols, errorMap |-> p.errorMap]

InitPage ==
  [reports |-> << >>, loadingSymbols |-> {}, errorMap |-> << >>,
   inflight |-> [s \in Symbols |-> 0],
   seen |-> [reports |-> << >>, loadingSymbols |-> {}, errorMap |-> << >>],
   removed |-> {}, failedOnce |-> {},
   lastAdd |-> [symbol |-> Null, issued |-> FALSE]]

\* variant: only an existing report stops a request
SkipsRequestReportsOnly(seen, sym) == sym \in DOMAIN seen.reports

\* the two early returns of handleAddSymbol
SkipsRequest(seen, sym) == sym \in DOMAIN seen.reports \/ sym \in seen.loadingSymbols

\* variant: the error of the symbol stays while the request runs
ErrorsAtRequestKept(errorMap, sym) == errorMap

\* the error of the symbol is deleted when its request starts
ErrorsAtRequest(errorMap, sym) == Without(errorMap, sym)

\* handleAddSymbol(sym) up to its await: in page.removed are the symbols removed
\* with no call for them since, lastAdd is the last call
HandleAddSymbol(sym) ==
  /\ IF SkipsRequest(page.seen, sym)
     THEN page' = [page EXCEPT !.lastAdd = [symbol |-> sym, issued |-> FALSE],
                               !.removed = @ \ {sym}]
     ELSE /\ page.inflight[sym] < MaxInFlight
          /\ page' = [page EXCEPT !.loadingSymbols = @ \cup {sym},
                                  !.errorMap = ErrorsAtRequest(@, sym),
                                  !.inflight[sym] = @ + 1,
                                  !.seen.loadingSymbols = @ \cup {sym},
                                  !.seen.errorMap = ErrorsAtRequest(@, sym),
                                  !.lastAdd = [symbol |-> sym, issued |-> TRUE],
                                  !.removed = @ \ {sym}]
  /\ UNCHANGED <<routerVars, connVars, histVars, nFed, nUnknown, serverVars, listPage, form>>

\* a request for sym settles: the rest of handleAddSymbol, with its finally
AnalyzeSettled(sym, outcome) ==
  /\ page.inflight[sym] > 0
  /\ page' = [page EXCEPT
                !.inflight[sym] = @ - 1,
                !.reports = IF outcome = "report" THEN Put(@, sym, [symbol |-> sym]) ELSE @,
                !.errorMap = IF outcome = "empty" THEN Put(@, sym, EmptyDataMessage)
                             ELSE IF outcome = "rejected" THEN Put(@, sym, RejectedMessage)
                             ELSE @,
                !.loadingSymbols = @ \ {sym},
                !.failedOnce = IF outcome = "report" THEN @ ELSE @ \cup {sym}]
  /\ UNCHANGED <<routerVars, connVars, histVars, nFed, nUnknown, serverVars, listPage, form>>

\* the pending updates are rendered
PageRender ==
  /\ page.seen # Rendering(page)
  /\ page' = [page EXCEPT !.seen = Rendering(page)]
  /\ UNCHANGED <<routerVars, connVars, histVars, nFed, nUnknown, serverVars, listPage, form>>

\* handleRemoveReport(sym), from the card of a report, of a loading symbol or of
\* an error
HandleRemoveReport(sym) ==
  /\ sym \in DOMAIN page.seen.reports \cup page.seen.loadingSymbols \cup DOMAIN page.seen.errorMap
  /\ page' = [page EXCEPT !.reports = Without(@, sym),
                          !.errorMap = Without(@, sym),
                          !.seen.reports = Without(@, sym),
                          !.seen.errorMap = Without(@, sym),
                          !.removed = @ \cup {sym}]
  /\ UNCHANGED <<routerVars, connVars, histVars, nFed, nUnknown, serverVars, listPage, form>>

\* ---------------------------------- the stock analysis page with a symbol list
\* An earlier StockAnalysis keeps the list of added symbols, saved to localStorage
\* under SAVED_SYMBOLS_KEY, and the reports. Its handlers set the list from the
\* list of their render; every write of the list is rendered before the next event.

\* JSON.stringify of a list of symbols: the texts of the elements, each closed by ";"
RECURSIVE Stringify(_)
Stringify(list) == IF list = << >> THEN "" ELSE list[1] \o ";" \o Stringify(Tail(list))

\* JSON.parse of a saved text
RECURSIVE Parse(_)
Parse(text) ==
  IF text = "" THEN << >>
  ELSE LET i == CHOOSE n \in 1..Len(text) :
                  /\ SubSeq(text, n, n) = ";"
                  /\ \A m \in 1..(n - 1) : SubSeq(text, m, m) # ";"
       IN <<SubSeq(text, 1, i - 1)>> \o Parse(SubSeq(text, i + 1, Len(text)))

\* Array.prototype.includes
Includes(list, sym) == \E i \in 1..Len(list) : list[i] = sym

\* symbolList.filter(s => s !== symbol)
Filter(list, sym) == LET Keep(s) == s # sym IN SelectSeq(list, Keep)

\* variant: every call adds
AlreadyListedNever(list, sym) == FALSE

\* the first early return of handleAddSymbol
AlreadyListed(list, sym) == Includes(list, sym)

\* the page after mount with nothing saved
InitList ==
  [symbolList |-> << >>, saved |-> Null, reports |-> << >>, seenReports |-> << >>,
   inflight |-> [s \in Symbols |-> 0],
   lastAdd |-> [symbol |-> Null, added |-> FALSE]]

\* localStorage.getItem(SAVED_SYMBOLS_KEY), parsed, or the empty list
SavedSymbols(saved) == IF saved = Null THEN << >> ELSE Parse(saved)

\* handleAddSymbol(sym) up to its await
ListAddSymbol(sym) ==
  /\ IF AlreadyListed(listPage.symbolList, sym)
     THEN listPage' = [listPage EXCEPT !.lastAdd = [symbol |-> sym, added |-> FALSE]]
     ELSE LET symbols == Append(listPage.symbolList, sym)
              requests == sym \notin DOMAIN listPage.seenReports
          IN /\ requests => listPage.inflight[sym] < MaxInFlight
             /\ listPage' = [listPage EXCEPT
                               !.symbolList = symbols,
                               !.saved = Stringify(symbols),
                               !.inflight[sym] = IF requests THEN @ + 1 ELSE @,
                               !.lastAdd = [symbol |-> sym, added |-> TRUE]]
  /\ UNCHANGED <<routerVars, connVars, histVars, nFed, nUnknown, serverVars, page, form>>

\* handleRemoveReport(sym), from the card of the symbol
ListRemoveReport(sym) ==
  /\ Includes(listPage.symbolList, sym)
  /\ LET symbols == Filter(listPage.symbolList, sym)
     IN listPage' = [listPage EXCEPT !.symbolList = symbols, !.saved = Stringify(symbols)]
  /\ UNCHANGED <<routerVars, connVars, histVars, nFed, nUnknown, serverVars, page, form>>

\* a request for sym settles: a report is stored, a failure only logged
ListSettled(sym, outcome) ==
  /\ listPage.inflight[sym] > 0
  /\ listPage' = [listPage EXCEPT
                    !.inflight[sym] = @ - 1,
                    !.reports = IF outcome = "report" THEN Put(@, sym, [symbol |-> sym]) ELSE @]
  /\ UNCHANGED <<routerVars, connVars, histVars, nFed, nUnknown, serverVars, page, form>>

\* the pending reports are rendered
ListRender ==
  /\ listPage.seenReports # listPage.reports
  /\ listPage' = [listPage EXCEPT !.seenReports = listPage.reports]
  /\ UNCHANGED <<routerVars, connVars, histVars, nFed, nUnknown, serverVars, page, form>>

\* the page is loaded again: the mount effect reads the saved list and requests a
\* report for each of its symbols; the requests of the page before are gone
ListReload ==
  /\ LET symbols == SavedSymbols(listPage.saved)
     IN listPage' = [listPage EXCEPT
                       !.symbolList = symbols,
                       !.reports = << >>,
                       !.seenReports = << >>,
                       !.inflight = [s \in Symbols |-> IF Includes(symbols, s) THEN 1 ELSE 0],
                       !.lastAdd = [symbol |-> Null, added |-> FALSE]]
  /\ UNCHANGED <<routerVars, connVars, histVars, nFed, nUnknown, serverVars, page, form>>

\* --------------------------------------------------------------- the form
\* Form keeps the selection of symbols and the text typed into the Select; the
\* selection is read from localStorage under STORAGE_KEY when the form mounts and
\* written by an effect that runs after every render that changed it.

\* texts the user types
RawInputs == {"aapl", "NVDA "}

\* value.toUpperCase().trim()
Normalize(text) ==
  CASE text = "aapl" -> "AAPL"
    [] text = "NVDA " -> "NVDA"
    [] OTHER -> text

\* no blur is waiting for its timeout
NoBlur == [inputValue |-> Null, selectedSymbols |-> << >>]

\* the initializer of selectedSymbols: the saved selection if it is a non-empty
\* list, otherwise defaultSymbols
InitialSelection(storage, defaultSymbols) ==
  IF storage # Null /\ storage # "" /\ Len(Parse(storage)) > 0 THEN Parse(storage)
  ELSE defaultSymbols

\* the save effect: a non-empty selection is written, an empty one is not
SaveSelection(storage, selection) ==
  IF Len(selection) > 0 THEN Stringify(selection) ELSE storage

\* the form after its first mount, nothing saved, no defaultSymbols; lastSelection
\* is the selection the form had when it was last unmounted, fresh says that
\* nothing changed since the mount
InitForm ==
  [selectedSymbols |-> << >>, inputValue |-> "", storage |-> Null, mounted |-> TRUE,
   blur |-> NoBlur, lastSelection |-> << >>, fresh |-> TRUE]

\* the values Select passes to onChange: an option added, a tag closed, all cleared
Changes(selection) ==
  {Append(selection, sym) : sym \in {s \in Symbols : ~Includes(selection, s)}}
  \cup {Filter(selection, sym) : sym \in {s \in Symbols : Includes(selection, s)}}
  \cup (IF selection = << >> THEN {} ELSE {<< >>})

\* handleChange(value), then the save effect
FormChange(value) ==
  /\ form.mounted
  /\ value \in Changes(form.selectedSymbols)
  /\ form' = [form EXCEPT !.selectedSymbols = value,
                          !.inputValue = "",
                          !.storage = SaveSelection(@, value),
                          !.fresh = FALSE]
  /\ UNCHANGED <<routerVars, connVars, histVars, nFed, nUnknown, serverVars, page, listPage>>

\* handleSearch(raw)
FormSearch(raw) ==
  /\ form.mounted
  /\ form.inputValue # Normalize(raw)
  /\ form' = [form EXCEPT !.inputValue = Normalize(raw)]
  /\ UNCHANGED <<routerVars, connVars, histVars, nFed, nUnknown, serverVars, page, listPage>>

\* the selection with the typed symbol added, if there is one that is not selected
WithInput(selection, inputValue) ==
  IF inputValue # "" /\ ~Includes(selection, inputValue) THEN Append(selection, inputValue)
  ELSE selection

\* handleKeyDown with Enter, then the save effect
FormEnter ==
  /\ form.mounted
  /\ WithInput(form.selectedSymbols, form.inputValue) # form.selectedSymbols
  /\ form' = [form EXCEPT !.selectedSymbols = WithInput(@, form.inputValue),
                          !.inputValue = "",
                          !.storage = SaveSelection(@, WithInput(form.selectedSymbols, form.inputValue)),
                          !.fresh = FALSE]
  /\ UNCHANGED <<routerVars, connVars, histVars, nFed, nUnknown, serverVars, page, listPage>>

\* handleBlur: the timeout is set; its callback keeps the values of this render
FormBlur ==
  /\ form.mounted
  /\ form.blur = NoBlur
  /\ form' = [form EXCEPT !.blur = [inputValue |-> form.inputValue,
                                    selectedSymbols |-> form.selectedSymbols]]
  /\ UNCHANGED <<routerVars, connVars, histVars, nFed, nUnknown, serverVars, page, listPage>>

\* the timeout of handleBlur fires, then the save effect
FormBlurTimer(isClickingOption) ==
  /\ form.mounted
  /\ form.blur # NoBlur
  /\ LET selection == IF isClickingOption THEN form.selectedSymbols
                      ELSE IF WithInput(form.blur.selectedSymbols, form.blur.inputValue)
                              # form.blur.selectedSymbols
                      THEN WithInput(form.blur.selectedSymbols, form.blur.inputValue)
                      ELSE form.selectedSymbols
     IN form' = [form EXCEPT !.selectedSymbols = selection,
                             !.inputValue = "",
                             !.storage = SaveSelection(@, selection),
                             !.blur = NoBlur,
                             !.fresh = @ /\ selection = form.selectedSymbols]
  /\ UNCHANGED <<routerVars, connVars, histVars, nFed, nUnknown, serverVars, page, listPage>>

\* the form unmounts (the page is left or loaded again)
FormUnmount ==
  /\ form.mounted
  /\ form' = [form EXCEPT !.mounted = FALSE, !.blur = NoBlur,
                          !.lastSelection = form.selectedSymbols]
  /\ UNCHANGED <<routerVars, connVars, histVars, nFed, nUnknown, serverVars, page, listPage>>

\* the form mounts: the initializer, then the save effect
FormMount ==
  /\ ~form.mounted
  /\ LET selection == InitialSelection(form.storage, << >>)
     IN form' = [form EXCEPT !.mounted = TRUE,
                             !.selectedSymbols = selection,
                             !.inputValue = "",
                             !.storage = SaveSelection(@, selection),
                             !.fresh = TRUE]
  /\ UNCHANGED <<routerVars, connVars, histVars, nFed, nUnknown, serverVars, page, listPage>>

\* a component that is not mounted has no state
Unmounted == "unmounted"

\* no page component is mounted: the route shows AgentReport
PagesIdle == page = Unmounted /\ listPage = Unmounted /\ form = Unmounted

\* ------------------------------------------------- the server: merge sink
\* The Orchestrator is not part of the web sources: the merge sink is the
\* synchronized queue of the design document, with the analysis units as
\* concurrent producers and one consumer draining to the transport.
InitSink == [emitted |-> [u \in Units |-> 0], queue |-> << >>, out |-> << >>]

\* the n-th event unit u emits
UnitEvent(u, n) == [step |-> u, n |-> n]

\* emit: the event is appended to the queue under the sink's lock
Enqueue(queue, event) == Append(queue, event)

\* variant: the consumer takes the newest item
DequeueNewest(queue) ==
  [item |-> queue[Len(queue)], rest |-> SubSeq(queue, 1, Len(queue) - 1)]

\* the consumer takes the oldest item
Dequeue(queue) == [item |-> Head(queue), rest |-> Tail(queue)]

\* the events of step u in a sequence of events, in their order there
OfStep(events, u) == LET IsOfStep(e) == e.step = u IN SelectSeq(events, IsOfStep)

\* AgentReport, idle, while another component is observed
ReportIdle ==
  /\ InitRouterState
  /\ symbol = "AAPL"
  /\ prevSymbolRef = "AAPL"
  /\ mounted = TRUE
  /\ es = << >>
  /\ effectEs = 0
  /\ microtask = FALSE
  /\ sessionLog = << >>
  /\ resetFor = 0
  /\ lastConn = 0

\* the client, idle, while only the server is observed
ClientIdle == ReportIdle /\ PagesIdle

clientVars == <<routerVars, connVars, histVars, nFed, nUnknown, pageVars>>

\* unit u emits its next event
Emit(u) ==
  /\ sink.emitted[u] < MaxEmits
  /\ sink' = [sink EXCEPT !.emitted[u] = @ + 1,
                          !.queue = Enqueue(@, UnitEvent(u, sink.emitted[u] + 1))]
  /\ UNCHANGED <<clientVars, splitter>>

\* the consumer forwards one item to the transport
Drain ==
  /\ sink.queue # << >>
  /\ LET d == Dequeue(sink.queue)
     IN sink' = [sink EXCEPT !.queue = d.rest, !.out = Append(@, d.item)]
  /\ UNCHANGED <<clientVars, splitter>>

\* ------------------------------------------ the server: ReasoningSplitter
\* The splitter is not part of the web sources: it is the two-state scanner of
\* the design document over the marker pair the project overview names.
OpenMarker == "<thinking>"

CloseMarker == "</thinking>"

\* a raw output with one closed reasoning section
Section(r) == OpenMarker \o r \o CloseMarker

\* raw model outputs, each with the reasoning text it holds: the text of its
\* closed sections and the text after an opening marker that is never closed
RawOutputs ==
  { [raw |-> Section("ab") \o "c", reasoning |-> "ab"],
    [raw |-> "x" \o Section("a") \o "y" \o Section("b"), reasoning |-> "ab"],
    [raw |-> "x" \o OpenMarker \o "ab", reasoning |-> "ab"],
    [raw |-> OpenMarker \o "a</thin", reasoning |-> "a</thin"],
    [raw |-> Section("a<b</t") \o "<th", reasoning |-> "a<b</t"],
    [raw |-> "a<b", reasoning |-> ""] }

\* the position of the first occurrence of marker m in text, 0 if there is none
IndexOf(text, m) ==
  LET at == {i \in 1..(Len(text) - Len(m) + 1) : SubSeq(text, i, i + Len(m) - 1) = m}
  IN IF at = {} THEN 0 ELSE CHOOSE i \in at : \A j \in at : i <= j

\* variant: no lookback, trailing text is classified at once
HeldBackNone(text, m) == 0

\* the length of the ambiguous trailing text: the longest end of text, at most the
\* marker length minus one, that is a beginning of marker m
HeldBack(text, m) ==
  LET most == IF Len(text) < Len(m) - 1 THEN Len(text) ELSE Len(m) - 1
      ks == {k \in 0..most : SubSeq(text, Len(text) - k + 1, Len(text)) = SubSeq(m, 1, k)}
  IN CHOOSE k \in ks : \A j \in ks : j <= k

\* scanning text in state mode: the channel outputs so far are th (Reasoning) and
\* an (Answer); the result holds the state, the text held back and the outputs
RECURSIVE Scan(_, _, _, _)
Scan(mode, text, th, an) ==
  LET m == IF mode = "Outside" THEN OpenMarker ELSE CloseMarker
      i == IndexOf(text, m)
  IN IF i > 0
     THEN LET before == SubSeq(text, 1, i - 1)
              after == SubSeq(text, i + Len(m), Len(text))
          IN IF mode = "Outside"
             THEN Scan("InsideReasoningMarker", after, th, an \o before)
             ELSE Scan("Outside", after, th \o before, an)
     ELSE LET k == HeldBack(text, m)
              emit == SubSeq(text, 1, Len(text) - k)
          IN [mode |-> mode,
              buf |-> SubSeq(text, Len(text) - k + 1, Len(text)),
              thinking |-> IF mode = "Outside" THEN th ELSE th \o emit,
              answer |-> IF mode = "Outside" THEN an \o emit ELSE an]

\* a splitter about to receive the raw output r
InitSplitter(r) ==
  [rest |-> r.raw, reasoning |-> r.reasoning, mode |-> "Outside", buf |-> "",
   thinking |-> "", answer |-> "", chunks |-> 0, held |-> FALSE, done |-> FALSE]

\* no generative step is running
IdleSplitter == [InitSplitter([raw |-> "", reasoning |-> ""]) EXCEPT !.done = TRUE]

\* the next raw chunk, the first n characters not yet delivered, is consumed; the
\* last chunk the bound allows takes all that is left
SplitterFeed(n) ==
  /\ ~splitter.done
  /\ n \in 1..Len(splitter.rest)
  /\ splitter.chunks + 1 < MaxChunks \/ n = Len(splitter.rest)
  /\ LET chunk == SubSeq(splitter.rest, 1, n)
         r == Scan(splitter.mode, splitter.buf \o chunk, splitter.thinking, splitter.answer)
     IN splitter' = [splitter EXCEPT !.rest = SubSeq(@, n + 1, Len(@)),
                                     !.mode = r.mode, !.buf = r.buf,
                                     !.thinking = r.thinking, !.answer = r.answer,
                                     !.chunks = @ + 1,
                                     !.held = @ \/ r.buf # ""]
  /\ UNCHANGED <<clientVars, sink>>

\* the stream ends: the held back text is flushed to the channel of the state
SplitterEnd ==
  /\ ~splitter.done
  /\ splitter.rest = ""
  /\ splitter' = [splitter EXCEPT
                    !.thinking = IF splitter.mode = "Outside" THEN @ ELSE @ \o splitter.buf,
                    !.answer = IF splitter.mode = "Outside" THEN @ \o splitter.buf ELSE @,
                    !.buf = "",
                    !.done = TRUE]
  /\ UNCHANGED <<clientVars, sink>>

\* the server side at rest while the client is observed
ServerIdle == sink = InitSink /\ splitter = IdleSplitter

InitMerge == ClientIdle /\ sink = InitSink /\ splitter = IdleSplitter

NextMerge ==
  \/ \E u \in Units : Emit(u)
  \/ Drain

MergeSpec == InitMerge /\ [][NextMerge]_vars

\* the longest raw output
MaxRawLen == CHOOSE n \in 0..64 : /\ \E r \in RawOutputs : Len(r.raw) = n
                                  /\ \A r \in RawOutputs : Len(r.raw) <= n

InitSplit == ClientIdle /\ sink = InitSink /\ \E r \in RawOutputs : splitter = InitSplitter(r)

NextSplit ==
  \/ \E n \in 1..MaxRawLen : SplitterFeed(n)
  \/ SplitterEnd

SplitterSpec == InitSplit /\ [][NextSplit]_vars

\* the stock analysis page alone: any symbols added and removed, requests
\* settling in any order and with any outcome
InitPageSpec ==
  /\ ReportIdle
  /\ ServerIdle
  /\ page = InitPage
  /\ listPage = Unmounted
  /\ form = Unmounted

NextPage ==
  \/ \E sym \in Symbols : HandleAddSymbol(sym)
  \/ \E sym \in Symbols, outcome \in Outcomes : AnalyzeSettled(sym, outcome)
  \/ PageRender
  \/ \E sym \in Symbols : HandleRemoveReport(sym)

PageSpec == InitPageSpec /\ [][NextPage]_vars

\* the page with the symbol list alone: any symbols added and removed, requests
\* settling in any order, the page loaded again at any time
InitListSpec ==
  /\ ReportIdle
  /\ ServerIdle
  /\ page = Unmounted
  /\ listPage = InitList
  /\ form = Unmounted

NextList ==
  \/ \E sym \in Symbols : ListAddSymbol(sym)
  \/ \E sym \in Symbols : ListRemoveReport(sym)
  \/ \E sym \in Symbols, outcome \in {"report", "rejected"} : ListSettled(sym, outcome)
  \/ ListRender
  \/ ListReload

ListSpec == InitListSpec /\ [][NextList]_vars

\* the form alone: any changes of the selection, the form unmounted and mounted
\* again at any time
InitFormSpec ==
  /\ ReportIdle
  /\ ServerIdle
  /\ page = Unmounted
  /\ listPage = Unmounted
  /\ form = InitForm

NextForm ==
  \/ \E value \in Changes(form.selectedSymbols) : FormChange(value)
  \/ \E raw \in RawInputs : FormSearch(raw)
  \/ FormEnter
  \/ FormBlur
  \/ \E isClickingOption \in BOOLEAN : FormBlurTimer(isClickingOption)
  \/ FormUnmount
  \/ FormMount

FormSpec == InitFormSpec /\ [][NextForm]_vars

\* isMockMode is a build switch; both builds are covered. The symbols are
\* interchangeable, so the first route is fixed.
Init ==
  /\ InitRouterState
  /\ \E s \in {"AAPL"}, isMockMode \in BOOLEAN :
       /\ symbol = s
       /\ prevSymbolRef = s
       /\ es = <<NewSource(s, isMockMode)>>
  /\ mounted = TRUE
  /\ effectEs = 1
  /\ microtask = TRUE
  /\ sessionLog = <<EmptyLog>>
  /\ resetFor = 0
  /\ lastConn = 0
  /\ ServerIdle
  /\ PagesIdle

Next ==
  \/ RunMicrotask
  \/ \E c \in 1..Len(es) : FireTimer(c)
  \/ \E c \in 1..Len(es) : ServerEmit(c)
  \/ \E c \in 1..Len(es) : TransportError(c)
  \/ \E c \in 1..Len(es) : MalformedComplete(c)
  \/ \E sym \in Symbols : Navigate(sym)
  \/ Unmount
  \/ \E p \in Panels, mode \in {"thinking", "report"} : Idle /\ HandleSetViewMode(p, mode)
  \/ Idle /\ CloseAlert

Spec == Init /\ [][Next]_vars

InitRouter ==
  /\ InitRouterState
  /\ symbol = "AAPL"
  /\ prevSymbolRef = "AAPL"
  /\ mounted = TRUE
  /\ es = << >>
  /\ effectEs = 0
  /\ microtask = FALSE
  /\ sessionLog = << >>
  /\ resetFor = 0
  /\ lastConn = 0
  /\ ServerIdle
  /\ PagesIdle

\* one event reaches handleMessage
Feed(event) ==
  /\ ~crashed
  /\ nFed < MaxEvents
  /\ nFed' = nFed + 1
  /\ nUnknown' = nUnknown + UnknownCount(event)
  /\ HandleMessage(event)
  /\ UNCHANGED <<connVars, serverVars, pageVars>>

\* the reset of a new request
FeedReset ==
  /\ ~crashed
  /\ lastEvent # NoEvent
  /\ ResetState
  /\ nUnknown' = 0
  /\ UNCHANGED <<connVars, nFed, serverVars, pageVars>>

NextRouter ==
  \/ \E event \in Events : Feed(event)
  \/ FeedReset
  \/ \E p \in Panels, mode \in {"thinking", "report"} : HandleSetViewMode(p, mode)
  \/ CloseAlert

RouterSpec == InitRouter /\ [][NextRouter]_vars

\* ---------------------------------------------------------------- claims
\* handleMessage applied an event in this step
AppliedStep == (nFed' # nFed \/ sessionLog' # sessionLog) /\ ~crashed'

\* stepContents[k].isStreaming, read as a truth value
IsStreaming(sc, k) == k \in DOMAIN sc /\ "isStreaming" \in DOMAIN sc[k] /\ sc[k].isStreaming

TerminalStatuses == {"success", "error", NodeStatus.completed}

C2_BuffersAreConcatenation ==
  \A s \in Panels :
    /\ stepContents[s].thinking = expThinking[s]
    /\ stepContents[s].streaming = expStreaming[s]

C2_Witness ==
  /\ lastEvent.type = "thinking"
  /\ lastEvent.step = "technical_analyzer_llm"
  /\ stepContents["technical_analyzer"].thinking = "ab"

\* the router state the reset installs
Pristine ==
  /\ progressNodes = << >>
  /\ analysisResult = << >>
  /\ stepContents = InitialStepContents
  /\ error = Null
  /\ currentSymbol = Null
  /\ hasStarted = FALSE

\* C3: after a symbol change the state is the reset state until the first event of
\* the new source is applied (or its connection fails), events are applied only from
\* the source whose reset ran last, and nothing is applied while the reset is pending.
C3_ResetBeforeNewSession ==
  /\ []((lastConn # 0 /\ ~microtask) => lastConn = resetFor)
  /\ []((/\ effectEs # 0 /\ resetFor = effectEs
          /\ sessionLog[effectEs].first = "none" /\ ~es[effectEs].failed)
         => Pristine)
  /\ [](microtask => sessionLog[effectEs].first = "none")
  /\ [][microtask => sessionLog' = sessionLog]_vars

C3_Witness ==
  /\ Len(es) = 2
  /\ sessionLog[1].first = "start"
  /\ sessionLog[1].terminals = 0
  /\ resetFor = 2
  /\ lastConn = 2
  /\ sessionLog[2].first = "start"

\* C4: with no user override, a rendered panel with content shows thinking exactly
\* when it has reasoning and no answer, and shows report whenever it has an answer.
C4_AutomaticView ==
  \A p \in Panels :
    (/\ Rendered(stepContents, analysisResult, p)
     /\ userSelectedMode[p] = "none"
     /\ hasThinking(p) \/ hasReport(p))
    => /\ (ViewOf(p) = "thinking") <=> (hasThinking(p) /\ ~hasReport(p))
       /\ hasReport(p) => ViewOf(p) = "report"

C4_Witness ==
  \E p \in Panels :
    /\ Rendered(stepContents, analysisResult, p)
    /\ userSelectedMode[p] = "none"
    /\ hasThinking(p) /\ hasReport(p) /\ stepContents[p].isStreaming
    /\ ViewOf(p) = "report"

\* C5: with a user override, a rendered panel shows the chosen channel whenever it
\* has content, and the other channel when the chosen one is empty and the other
\* one has content.
C5_OverrideRevalidated ==
  \A p \in Panels :
    (Rendered(stepContents, analysisResult, p) /\ userSelectedMode[p] # "none")
    => LET chosen == userSelectedMode[p]
           other == IF chosen = "thinking" THEN "report" ELSE "thinking"
           has(m) == IF m = "thinking" THEN hasThinking(p) ELSE hasReport(p)
       IN /\ has(chosen) => ViewOf(p) = chosen
          /\ (~has(chosen) /\ has(other)) => ViewOf(p) = other

C5_Witness ==
  \E p \in Panels :
    /\ Rendered(stepContents, analysisResult, p)
    /\ userSelectedMode[p] = "thinking"
    /\ ~hasThinking(p) /\ hasReport(p)
    /\ ViewOf(p) = "report"

\* C6: once progress{success | error} for a step, or complete / error for the
\* session, has been processed, the step card shows no running spinner.
C6_NoSpinnerAfterTerminal ==
  \A s \in Panels :
    (\/ lastEvent.type \in {"complete", "error"}
     \/ /\ lastEvent.type = "progress"
        /\ lastEvent.step = s
        /\ lastEvent.status \in {"success", "error"})
    => ~ShowsSpinner(progressNodes, hasStarted, s)

\* C7 as stated: a thinking or streaming delta for a step without terminal status
\* leaves the step with isStreaming = true.
C7_AnyDeltaSetsStreaming ==
  (/\ lastEvent.type \in {"thinking", "streaming"}
   /\ StatusOf(progressNodes, getStepKey(lastEvent.step)) \notin TerminalStatuses)
  => IsStreaming(stepContents, getStepKey(lastEvent.step))

\* C7 amended: a streaming delta for a step without terminal status leaves the step
\* with isStreaming = true; a thinking delta leaves isStreaming as it was.
C7_StreamingDeltaSetsStreaming ==
  [][AppliedStep =>
       LET event == lastEvent'
       IN /\ (/\ event.type = "streaming"
              /\ StatusOf(progressNodes', getStepKey(event.step)) \notin TerminalStatuses)
             => IsStreaming(stepContents', getStepKey(event.step))
          /\ event.type = "thinking"
             => (IsStreaming(stepContents', getStepKey(event.step))
                 <=> IsStreaming(stepContents, getStepKey(event.step)))]_vars

C7_Witness ==
  /\ lastEvent.type = "streaming"
  /\ StatusOf(progressNodes, getStepKey(lastEvent.step)) = NodeStatus.running
  /\ stepContents[getStepKey(lastEvent.step)].thinking # ""
  /\ IsStreaming(stepContents, getStepKey(lastEvent.step))

\* C8: right after complete has been processed, isStreaming is false for every step.
C8_CompleteSettlesAll ==
  lastEvent.type = "complete"
  => \A k \in DOMAIN stepContents :
       "isStreaming" \in DOMAIN stepContents[k] /\ stepContents[k].isStreaming = FALSE

C8_Witness ==
  /\ lastEvent.type = "complete"
  /\ \E k \in Panels : stepContents[k].streaming # "" /\ stepContents[k].thinking # ""

\* C9: right after progress{success} for a step, the status stored for the step is
\* NodeStatus.completed.
C9_SuccessIsCompleted ==
  (lastEvent.type = "progress" /\ lastEvent.status = "success")
  => StatusOf(progressNodes, lastEvent.step) = NodeStatus.completed

\* C10: progress{error} leaves the step with status error, and a step with status
\* error keeps it across thinking and streaming deltas for the step, a session
\* error and complete.
C10_StepErrorPersists ==
  [][AppliedStep =>
       LET event == lastEvent'
       IN /\ (event.type = "progress" /\ event.status = "error")
             => StatusOf(progressNodes', event.step) = NodeStatus.error
          /\ \A s \in DOMAIN progressNodes :
               (/\ StatusOf(progressNodes, s) = NodeStatus.error
                /\ \/ event.type \in {"error", "complete"}
                   \/ event.type \in {"thinking", "streaming"} /\ event.step = s)
               => StatusOf(progressNodes', s) = NodeStatus.error]_vars

C10_Witness ==
  /\ lastEvent.type \in {"thinking", "streaming"}
  /\ StatusOf(progressNodes, lastEvent.step) = NodeStatus.error
  /\ progressNodes[lastEvent.step].content = "b"

\* s ends with suf
EndsWith(s, suf) == Len(s) >= Len(suf) /\ SubSeq(s, Len(s) - Len(suf) + 1, Len(s)) = suf

\* C11: processing a thinking / streaming event never fails, also for a step that is
\* none of the three declared steps and does not start with one of their names, and
\* afterwards the router holds a state for the event's step whose buffer of the
\* event's channel ends with the delta.
C11_StateCreatedOnFirstEvent ==
  /\ ~crashed
  /\ lastEvent.type \in {"thinking", "streaming"}
     => LET k == getStepKey(lastEvent.step)
        IN /\ k \in DOMAIN stepContents
           /\ lastEvent.type \in DOMAIN stepContents[k]
           /\ EndsWith(stepContents[k][lastEvent.type], lastEvent.content)

\* C12: an event of an unknown kind that arrives leaves every part of the router
\* state unchanged, is not passed to the handler, and leaves every event source as
\* open and as listened to as it was.
C12_UnknownKindIgnored ==
  [][nUnknown' > nUnknown =>
       /\ routerVars' = routerVars
       /\ sessionLog' = sessionLog
       /\ Len(es') = Len(es)
       /\ \A c \in 1..Len(es) :
            /\ es'[c].closed = es[c].closed
            /\ es'[c].listeners = es[c].listeners]_vars

C12_Witness ==
  /\ nUnknown > 0
  /\ Len(es) = 1
  /\ sessionLog[1].first = "start"
  /\ lastEvent.type = "complete"
  /\ analysisResult # << >>

\* the buffer f of step k, << >> when the step or the buffer does not exist
BufferOf(sc, k, f) == IF k \in DOMAIN sc /\ f \in DOMAIN sc[k] THEN <<sc[k][f]>> ELSE << >>

\* C13: processing a session error or complete leaves the reasoning buffer and the
\* answer buffer of every step as they were.
C13_ContentNotRetracted ==
  [][(AppliedStep /\ lastEvent'.type \in {"error", "complete"}) =>
       \A k \in DOMAIN stepContents :
         /\ BufferOf(stepContents', k, "thinking") = BufferOf(stepContents, k, "thinking")
         /\ BufferOf(stepContents', k, "streaming") = BufferOf(stepContents, k, "streaming")]_vars

C13_Witness ==
  /\ lastEvent.type \in {"error", "complete"}
  /\ stepContents["coordinator"].thinking = "a"
  /\ stepContents["coordinator"].streaming = "b"

\* a session reset ran in this step: the queued reset, or a start was applied
ResetStep == (microtask /\ ~microtask') \/ (AppliedStep /\ lastEvent'.type = "start")

\* C14: right after a session reset (the reset of a symbol change, or a start) no
\* panel holds a view override, and every rendered panel shows the view the
\* automatic precedence gives; until the user chooses again this stays so (C4).
C14_OverrideDoesNotSurviveReset ==
  [][ResetStep =>
       \A p \in Panels :
         /\ userSelectedMode'[p] = "none"
         /\ Rendered(stepContents', analysisResult', p)
            => ViewOf(p)' = viewMode("none", hasThinking(p)', hasReport(p)',
                                     stepContents'[p].isStreaming)]_vars

C14_Witness ==
  /\ overrideAtReset
  /\ Len(es) = 2 /\ resetFor = 2
  /\ \A p \in Panels : userSelectedMode[p] = "none"

\* the client has closed source c: its effect was cleaned up (symbol change,
\* unmount) or one of its listeners called close()
ClientClosed(c) == c # effectEs \/ es[c].closed

\* C16: once the client has closed a source, the source is closed, holds no pending
\* timer and no listener, no event of it is passed to the handler any more and the
\* router applies nothing from it.
C16_NothingAfterClose ==
  /\ [](\A c \in 1..Len(es) :
          ClientClosed(c) => es[c].closed /\ es[c].timers = {} /\ ~es[c].listeners)
  /\ [][\A c \in 1..Len(es) :
          ClientClosed(c) => /\ sessionLog'[c] = sessionLog[c]
                             /\ (lastConn' = c => lastConn = c)]_vars

C16_Witness ==
  /\ Len(es) = 2 /\ effectEs = 2
  /\ es[1].mock /\ es[1].closed
  /\ sessionLog[1].last = "streaming"
  /\ sessionLog[2].last = "complete"

\* C17: whenever an event of the coordinator step (progress, thinking, streaming)
\* has been received since the reset, both analysis units have reported their
\* terminal progress (success or error) before it.
C17_SynthesisAfterBothUnits ==
  ("coordinator" \in DOMAIN progressNodes \/ Rendered(stepContents, << >>, "coordinator"))
  => \A u \in Units : StatusOf(progressNodes, u) \in {"success", "error"}

C17_Witness ==
  /\ effectEs # 0 /\ es[effectEs].mock
  /\ lastEvent = ProgressEvent("coordinator", "running")
  /\ \A u \in Units : StatusOf(progressNodes, u) = "success"

\* C18: in a session in which both analysis units ended with an error, no event of
\* the coordinator step is received, no complete is received, and when the session
\* has ended through its own listener it ended with error.
C18_BothFailEndsWithError ==
  (\A u \in Units : StatusOf(progressNodes, u) = NodeStatus.error)
  => /\ "coordinator" \notin DOMAIN progressNodes
     /\ ~Rendered(stepContents, analysisResult, "coordinator")
     /\ analysisResult = << >>
     /\ lastEvent.type # "complete"
     /\ (effectEs # 0 /\ es[effectEs].closed /\ ~es[effectEs].failed)
        => /\ sessionLog[effectEs].last = "error"
           /\ lastEvent = ErrorEvent

C18_Witness ==
  /\ \A u \in Units : StatusOf(progressNodes, u) = NodeStatus.error
  /\ effectEs # 0 /\ es[effectEs].closed /\ ~es[effectEs].failed
  /\ lastEvent = ErrorEvent
  /\ error = ErrorEvent.message

\* C19: under every interleaving of the producers, the events of each step appear
\* in the outbound sequence, and wait in the queue, in the order the step emitted
\* them: the outbound events of step u are its first events, the queued ones the
\* next.
C19_MergePreservesStepOrder ==
  \A u \in Units :
    LET sent == OfStep(sink.out, u)
        waiting == OfStep(sink.queue, u)
    IN /\ \A i \in 1..Len(sent) : sent[i] = UnitEvent(u, i)
       /\ \A i \in 1..Len(waiting) : waiting[i] = UnitEvent(u, Len(sent) + i)
       /\ Len(sent) + Len(waiting) = sink.emitted[u]

C19_Witness ==
  /\ Len(sink.out) = 2 * MaxEmits
  /\ sink.out[1].step = "technical_analyzer"
  /\ sink.out[2].step = "fundamental_analyzer"
  /\ sink.out[3].step = "technical_analyzer"

\* C20: when the stream of a raw output has ended, under every fragmentation into
\* chunks, the concatenation of the Reasoning outputs is the reasoning text of the
\* raw output.
C20_ThinkingRoundTrip ==
  splitter.done => splitter.thinking = splitter.reasoning

C20_Witness ==
  /\ splitter.done /\ splitter.held
  /\ splitter.chunks >= 2
  /\ splitter.mode = "InsideReasoningMarker"
  /\ splitter.reasoning = "a</thin"
  /\ splitter.thinking = splitter.reasoning

\* the connections that are open
OpenSources == {c \in 1..Len(es) : ~es[c].closed}

\* C21: at every moment at most one connection of the component is open, and it is
\* the connection of the live effect, opened for the current symbol; once the
\* component is unmounted none is open.
C21_AtMostOneOpen ==
  /\ Cardinality(OpenSources) <= 1
  /\ \A c \in OpenSources : c = effectEs /\ es[c].symbol = symbol
  /\ ~mounted => OpenSources = {}

C21_Witness ==
  /\ Len(es) = 2 /\ es[1].closed /\ OpenSources = {2}
  /\ es[1].symbol # es[2].symbol
  /\ sessionLog[1].first = "start" /\ sessionLog[1].last \notin {"error", "complete"}

\* the step keys the router holds or has been sent events for
StepKeys == DOMAIN stepContents \cup streamingLast \cup {getStepKey(s) : s \in EventSteps}

\* C22: for every step, isStreaming is true exactly when the most recent event among
\* start or reset, complete and the streaming deltas for that step is a streaming
\* delta for that step.
C22_StreamingFlagFollowsEvents ==
  ~crashed => \A k \in StepKeys : IsStreaming(stepContents, k) <=> k \in streamingLast

C22_Witness ==
  /\ analysisResult # << >>
  /\ lastEvent = ProgressEvent("coordinator", "success")
  /\ streamingLast = {"coordinator"}
  /\ IsStreaming(stepContents, "coordinator")
  /\ ~IsStreaming(stepContents, "technical_analyzer")

\* C23: a thinking or streaming event for one step leaves the entry of every other
\* step (reasoning buffer, answer buffer, isStreaming, execution time) as it was,
\* and neither adds nor removes another step's entry.
C23_DeltaFrame ==
  [][(AppliedStep /\ lastEvent'.type \in {"thinking", "streaming"})
     => \A k \in (DOMAIN stepContents \cup DOMAIN stepContents') \ {getStepKey(lastEvent'.step)} :
          /\ k \in DOMAIN stepContents /\ k \in DOMAIN stepContents'
          /\ stepContents'[k] = stepContents[k]]_vars

C23_Witness ==
  /\ lastEvent = StreamingEvent("fundamental_analyzer", "a")
  /\ IsStreaming(stepContents, "coordinator")
  /\ stepContents["coordinator"].streaming = "b"
  /\ stepContents["coordinator"].executionTime = 5

\* the complete payload of source c reached onMessage
CompleteDelivered(c) == sessionLog[c].last = "complete"

\* C24: every source ended by its listeners told the client how it ended exactly
\* once: either its complete payload was delivered to onMessage or onError was
\* called once, never neither and never both; for no source is onError called twice.
C24_EndToldExactlyOnce ==
  \A c \in 1..Len(es) :
    /\ es[c].onErrors <= 1
    /\ ~(CompleteDelivered(c) /\ es[c].onErrors > 0)
    /\ es[c].ended => (CompleteDelivered(c) \/ es[c].onErrors = 1)

\* C25: a step that issues an analysis request for a symbol starts from a state
\* in which the symbol has no report and no request in flight; at no time is more
\* than one request for a symbol in flight.
C25_NoDuplicateRequest ==
  /\ [](\A sym \in Symbols : page.inflight[sym] <= 1)
  /\ [][\A sym \in Symbols :
          page'.inflight[sym] > page.inflight[sym]
          => sym \notin DOMAIN page.reports /\ page.inflight[sym] = 0]_vars

C25_Witness ==
  \E sym \in Symbols :
    /\ page.lastAdd = [symbol |-> sym, issued |-> FALSE]
    /\ page.inflight[sym] = 1
    /\ sym \notin DOMAIN page.reports
    /\ sym \in page.removed

\* C26 as stated: a symbol removed with handleRemoveReport, with no handleAddSymbol
\* call for it since, has neither a report nor an error.
C26_RemovedStaysRemoved ==
  \A sym \in page.removed : sym \notin DOMAIN page.reports /\ sym \notin DOMAIN page.errorMap

\* C27: no symbol has a report and an error at the same time.
C27_ReportXorError ==
  DOMAIN page.reports \cap DOMAIN page.errorMap = {}

C27_Witness ==
  \E sym \in Symbols :
    /\ sym \in page.failedOnce
    /\ sym \in DOMAIN page.reports
    /\ DOMAIN page.errorMap = Symbols \ {sym}

\* no element occurs twice
NoDuplicates(list) == \A i, j \in 1..Len(list) : list[i] = list[j] => i = j

\* C28: after any sequence of adds, removals and reloads the symbol list, and the
\* list saved to localStorage, hold each symbol at most once; adding a symbol that
\* is in the list leaves the list as it is.
C28_NoDuplicateSymbols ==
  /\ [](NoDuplicates(listPage.symbolList) /\ NoDuplicates(SavedSymbols(listPage.saved)))
  /\ [][\A sym \in Symbols :
          (listPage'.lastAdd = [symbol |-> sym, added |-> FALSE] /\ listPage'.lastAdd # listPage.lastAdd)
          => listPage'.symbolList = listPage.symbolList /\ listPage'.saved = listPage.saved]_vars

C28_Witness ==
  /\ listPage.lastAdd = [symbol |-> "AAPL", added |-> FALSE]
  /\ listPage.symbolList = <<"NVDA", "AAPL">>
  /\ SavedSymbols(listPage.saved) = listPage.symbolList
  /\ listPage.inflight["AAPL"] = 2

\* the selection localStorage holds
StoredSelection == IF form.storage = Null THEN << >> ELSE Parse(form.storage)

\* C29 as stated: while the form is mounted localStorage holds its selection, and a
\* form that has just mounted has the selection the form had when it was last
\* unmounted.
C29_SelectionRestored ==
  /\ form.mounted => StoredSelection = form.selectedSymbols
  /\ (form.mounted /\ form.fresh) => form.selectedSymbols = form.lastSelection

====
